---- MODULE Spec2Model ----
(***************************************************************************)
(* A model of src/main.py: the Telegram bot that resolves                  *)
(* year/group/subject/number paths in Google Drive, delivers the file and  *)
(* caches the Telegram file_id in SQLite.                                  *)
(*                                                                         *)
(* Strings are sequences of tokens: a word ("cse", "Assignment"), a        *)
(* single digit or a punctuation character.  None is the string "None".    *)
(*                                                                         *)
(* Suspension points.  The Drive client is the blocking googleapiclient,   *)
(* so resolution, query and download of one request run without yielding;  *)
(* a request yields only at the awaits on Telegram calls.  One action is   *)
(* one such uninterrupted block.                                           *)
(*                                                                         *)
(* Scheduling.  main() builds the Application without concurrent_updates,  *)
(* so an update is taken only when the handler of the previous one has     *)
(* returned: Spec.  SpecConcurrent is the same program with the setting    *)
(* on, where the handlers of different users interleave at the awaits.     *)
(*                                                                         *)
(* Telegram failures are modelled where the code reacts to them: the two   *)
(* send_document calls and the placeholder deletion inside the try block   *)
(* of the cached path.  Plain status messages are taken to arrive.         *)
(*                                                                         *)
(* Functions alone.  SpecCache applies the cache writes, SpecResolve the   *)
(* path resolution, SpecNames the file query and the number listing,       *)
(* SpecFolders the folder listing, each to inputs drawn from bounded sets; *)
(* the variable probe holds the inputs and the result.                     *)
(*                                                                         *)
(* src/bot.py is a second program, a chat bot that keeps each user's       *)
(* conversation in its user_data dict: SpecChat, over the variable         *)
(* bot_user_data, with the update last handled recorded in probe.          *)
(***************************************************************************)
EXTENDS Integers, Sequences, FiniteSets, TLC

VARIABLES
    user_data,          \* context.user_data of each user: a dict
    conv,               \* ConversationHandler state of each user
    assignment_cache,   \* rows of table assignment_cache
    note_cache,         \* rows of table note_cache
    h,                  \* the handler invocation in progress for each user
    concurrent_updates, \* the Application's concurrent_updates setting
    lastPut,            \* history: the last handle put under each key
    lastWriter,         \* history: the user whose request made the last put
    bot_user_data,      \* bot.py: the module's user_data dict
    probe               \* one function applied alone: its inputs and its result

vars == <<user_data, conv, assignment_cache, note_cache, h, concurrent_updates, lastPut,
          lastWriter, probe, bot_user_data>>

session == <<user_data, conv>>

caches == <<assignment_cache, note_cache, lastPut, lastWriter>>

None == "None"

\* ------------------------------------------------------------- bounds

\* Telegram file_ids the gateway may hand out: 1..MaxHandle
MaxHandle == 2

Users == {"u1", "u2"}
Handles == 1..MaxHandle

\* ------------------------------------------------------------ strings

Digits == <<"0", "1", "2", "3", "4", "5", "6", "7", "8", "9">>

IsDigit(c) == \E i \in 1..10 : Digits[i] = c

DigitVal(c) == (CHOOSE i \in 1..10 : Digits[i] = c) - 1

\* str.upper() on one token
upper(tok) ==
    CASE tok \in {"cse", "Cse", "CSE"} -> "CSE"
      [] tok \in {"ece", "ECE"} -> "ECE"
      [] tok \in {"dbms", "Dbms", "DBMS"} -> "DBMS"
      [] tok \in {"os", "OS"} -> "OS"
      [] tok \in {"assignment", "Assignment", "ASSIGNMENT"} -> "ASSIGNMENT"
      [] tok \in {"assignments", "Assignments", "ASSIGNMENTS"} -> "ASSIGNMENTS"
      [] tok \in {"unit", "Unit", "UNIT"} -> "UNIT"
      [] tok \in {"note", "Note", "NOTE"} -> "NOTE"
      [] tok \in {"notes", "Notes", "NOTES"} -> "NOTES"
      [] tok \in {"final", "FINAL"} -> "FINAL"
      [] tok \in {"year", "Year", "YEAR"} -> "YEAR"
      [] tok \in {"1st", "1ST"} -> "1ST"
      [] tok \in {"2nd", "2ND"} -> "2ND"
      [] tok \in {"3rd", "3RD"} -> "3RD"
      [] tok \in {"4th", "4TH"} -> "4TH"
      [] tok \in {"5th", "5TH"} -> "5TH"
      [] tok \in {"pdf", "PDF"} -> "PDF"
      [] tok \in {"sam", "Sam", "SAM"} -> "SAM"
      [] OTHER -> tok

\* s.upper()
StrUpper(s) == [i \in DOMAIN s |-> upper(s[i])]

\* s.replace(a, b) for one-token a and b
StrReplace(s, a, b) == [i \in DOMAIN s |-> IF s[i] = a THEN b ELSE s[i]]

\* the decimal value of a non-empty sequence of digits
RECURSIVE DigitsVal(_)
DigitsVal(ds) ==
    IF Len(ds) = 0 THEN 0
    ELSE 10 * DigitsVal(SubSeq(ds, 1, Len(ds) - 1)) + DigitVal(ds[Len(ds)])

AllDigits(ds) == Len(ds) > 0 /\ \A i \in DOMAIN ds : IsDigit(ds[i])

\* int(number_str) raises ValueError unless the text is an optional sign and digits
IsInt(s) ==
    \/ AllDigits(s)
    \/ Len(s) > 1 /\ s[1] \in {"-", "+"} /\ AllDigits(Tail(s))

\* int(number_str) of a text that parses
ParseInt(s) ==
    IF AllDigits(s) THEN DigitsVal(s)
    ELSE IF s[1] = "-" THEN 0 - DigitsVal(Tail(s))
    ELSE DigitsVal(Tail(s))

\* str(n) of an integer, as the f-string formats it
RECURSIVE NatStr(_)
NatStr(n) ==
    IF n < 10 THEN <<Digits[n + 1]>>
    ELSE NatStr(n \div 10) \o <<Digits[(n % 10) + 1]>>

IntStr(n) == IF n < 0 THEN <<"-">> \o NatStr(0 - n) ELSE NatStr(n)

\* ------------------------------------------------------- Google Drive

GOOGLE_DRIVE_ROOT_FOLDER_ID == "root"

\* The Drive content, in the order the API lists it.
DRIVE ==
    << [id |-> "y2",  parent |-> "root", folder |-> TRUE,  name |-> <<"2nd", "_", "Year">>],
       [id |-> "cse", parent |-> "y2",   folder |-> TRUE,  name |-> <<"CSE">>],
       [id |-> "ece", parent |-> "y2",   folder |-> TRUE,  name |-> <<"ECE">>],
       [id |-> "db",  parent |-> "cse",  folder |-> TRUE,  name |-> <<"DBMS">>],
       [id |-> "os",  parent |-> "cse",  folder |-> TRUE,  name |-> <<"OS">>],
       [id |-> "as",  parent |-> "db",   folder |-> TRUE,  name |-> <<"Assignments">>],
       [id |-> "no",  parent |-> "db",   folder |-> TRUE,  name |-> <<"Notes">>],
       [id |-> "as2", parent |-> "db",   folder |-> TRUE,  name |-> <<"Assignments">>],
       [id |-> "a10", parent |-> "as",   folder |-> FALSE,
        name |-> <<"assignment", "_", "1", "0", ".", "pdf">>],
       [id |-> "a2f", parent |-> "as",   folder |-> FALSE,
        name |-> <<"Assignment", "_", "2", "_", "final", ".", "pdf">>],
       [id |-> "a2",  parent |-> "as",   folder |-> FALSE,
        name |-> <<"ASSIGNMENT", "2", ".", "pdf">>],
       [id |-> "a1",  parent |-> "as",   folder |-> FALSE,
        name |-> <<"assignment", "_", "1">>],
       [id |-> "sub", parent |-> "as",   folder |-> TRUE,
        name |-> <<"assignment", "_", "2", "_", "final">>],
       [id |-> "n2",  parent |-> "no",   folder |-> FALSE,
        name |-> <<"Unit", "_", "2", ".", "pdf">>],
       [id |-> "n12", parent |-> "no",   folder |-> FALSE,
        name |-> <<"note", "_", "1", "2", ".", "pdf">>],
       [id |-> "x2",  parent |-> "as2",  folder |-> FALSE,
        name |-> <<"assignment", "_", "2", ".", "pdf">>] >>

\* the lookup taking the last item of the answer in place of the first
find_item_id_in_parent_last(name, parent_id, is_folder, failed) ==
    LET Hit(f) == f.name = name /\ f.parent = parent_id /\ f.folder = is_folder
        files == SelectSeq(DRIVE, Hit)
    IN  IF failed THEN None
        ELSE IF Len(files) > 0 THEN files[Len(files)].id ELSE None

\* the lookup repeated until the API answers
find_item_id_in_parent_retrying(name, parent_id, is_folder, failed) ==
    LET Hit(f) == f.name = name /\ f.parent = parent_id /\ f.folder = is_folder
        files == SelectSeq(DRIVE, Hit)
    IN  IF Len(files) > 0 THEN files[1].id ELSE None

\* find_item_id_in_parent: the first item of that name, parent and type; None
\* when there is none or the API raises HttpError (failed).
find_item_id_in_parent(name, parent_id, is_folder, failed) ==
    LET Hit(f) == f.name = name /\ f.parent = parent_id /\ f.folder = is_folder
        files == SelectSeq(DRIVE, Hit)
    IN  IF failed THEN None
        ELSE IF Len(files) > 0 THEN files[1].id ELSE None

\* the loop without its return on a miss: every segment is looked up
RECURSIVE resolve_from_exhaustive(_, _, _, _)
resolve_from_exhaustive(path_parts, i, current_id, errAt) ==
    IF i > Len(path_parts) THEN [id |-> current_id, lookups |-> i - 1]
    ELSE resolve_from_exhaustive(path_parts, i + 1,
            find_item_id_in_parent(path_parts[i], current_id, TRUE, errAt = i), errAt)

\* resolve_path_to_id from current_id over path_parts[i..]; lookup number
\* errAt (0: none) raises HttpError.  Returns the id (or None) and the
\* number of find_item_id_in_parent calls made.
RECURSIVE resolve_from(_, _, _, _)
resolve_from(path_parts, i, current_id, errAt) ==
    IF i > Len(path_parts) THEN [id |-> current_id, lookups |-> i - 1]
    ELSE LET next_id == find_item_id_in_parent(path_parts[i], current_id, TRUE, errAt = i)
         IN  IF next_id = None THEN [id |-> None, lookups |-> i]
             ELSE resolve_from(path_parts, i + 1, next_id, errAt)

resolve_path_to_id(path_parts, errAt) ==
    resolve_from(path_parts, 1, GOOGLE_DRIVE_ROOT_FOLDER_ID, errAt)

\* ----------------------------------------------- the fetch file query

\* the token of each kind's file names, upper-cased (the match ignores case)
KindTokens(kind) == IF kind = "Assignment" THEN {"ASSIGNMENT"} ELSE {"UNIT", "NOTE"}

\* the subfolder of each kind
KindFolder(kind) == IF kind = "Assignment" THEN <<"Assignments">> ELSE <<"Notes">>

\* whether a token's first character is a digit
StartsWithDigit(tok) == IsDigit(tok) \/ tok \in {"1st", "2nd", "3rd", "4th", "5th"}

\* "{number}[^0-9]" read at position j of name
NumberAt(name, j, ds) ==
    /\ j + Len(ds) <= Len(name)
    /\ SubSeq(name, j, j + Len(ds) - 1) = ds
    /\ ~StartsWithDigit(name[j + Len(ds)])

\* name ~* 'assignment_?{number}[^0-9]'  resp.  '(unit|note)_?{number}[^0-9]'
query_matches(kind, number, name) ==
    \E i \in DOMAIN name :
        /\ upper(name[i]) \in KindTokens(kind)
        /\ \/ NumberAt(name, i + 1, IntStr(number))
           \/ /\ i + 1 <= Len(name)
              /\ name[i + 1] = "_"
              /\ NumberAt(name, i + 2, IntStr(number))

\* the names among those of a folder's children that the query selects
query_names(kind, number, names) ==
    LET Hit(name) == query_matches(kind, number, name)
    IN  SelectSeq(names, Hit)

\* service.files().list(q=query): the children of the folder, of any type,
\* whose name matches, in the order the API lists them
query_files(folder_id, kind, number) ==
    LET Hit(f) == f.parent = folder_id /\ query_matches(kind, number, f.name)
    IN  SelectSeq(DRIVE, Hit)

\* download_file_from_drive: the content, or None on HttpError; get_media of
\* a folder is an HttpError
download_file_from_drive(file, failed) ==
    IF failed \/ file.folder THEN None ELSE file.id

\* ----------------------------------------------------- the listings

\* list_folders_in_parent: the names of the child folders, in the order the
\* API lists them; [] when the API raises HttpError (failed)
list_folders_in_parent(parent_id, failed) ==
    LET Hit(f) == f.parent = parent_id /\ f.folder
        files == SelectSeq(DRIVE, Hit)
    IN  IF failed THEN <<>> ELSE [i \in DOMAIN files |-> files[i].name]

\* service.files().list(q="'{id}' in parents and trashed = false"): the names
\* of all children
list_files(folder_id) ==
    LET Hit(f) == f.parent = folder_id
        files == SelectSeq(DRIVE, Hit)
    IN  [i \in DOMAIN files |-> files[i].name]

\* the tokens of folder names in the order Python compares strings
TokenOrder ==
    <<" ", ".", "0", "1", "1st", "2", "2nd", "3", "4", "5", "6", "7", "8", "9",
      "A", "ASSIGNMENT", "Assignment", "Assignments", "B", "C", "CSE", "DBMS",
      "ECE", "Notes", "OS", "Unit", "Year", "_", "assignment", "final", "note",
      "pdf">>

TokenRank(tok) == CHOOSE i \in DOMAIN TokenOrder : TokenOrder[i] = tok

\* a < b on strings
StrLess(a, b) ==
    \E k \in 1..(Len(a) + 1) :
        /\ k <= Len(b)
        /\ \A j \in 1..(k - 1) : a[j] = b[j]
        /\ k <= Len(a) => TokenRank(a[k]) < TokenRank(b[k])

RECURSIVE InsertName(_, _)
InsertName(seq, x) ==
    IF seq = <<>> THEN <<x>>
    ELSE IF StrLess(x, Head(seq)) THEN <<x>> \o seq
    ELSE <<Head(seq)>> \o InsertName(Tail(seq), x)

\* the names in the order the API listed them
sorted_names_as_listed(seq) == seq

\* sorted(items) of a list of strings
RECURSIVE sorted_names(_)
sorted_names(seq) ==
    IF seq = <<>> THEN <<>>
    ELSE InsertName(sorted_names(SubSeq(seq, 1, Len(seq) - 1)), seq[Len(seq)])

\* the numbers in descending order
RECURSIVE sorted_numbers_descending(_)
sorted_numbers_descending(S) ==
    IF S = {} THEN <<>>
    ELSE LET m == CHOOSE x \in S : \A y \in S : x >= y
         IN  <<m>> \o sorted_numbers_descending(S \ {m})

\* sorted(list(numbers)) of a set of integers
RECURSIVE sorted_numbers(_)
sorted_numbers(S) ==
    IF S = {} THEN <<>>
    ELSE LET m == CHOOSE x \in S : \A y \in S : x <= y
         IN  <<m>> \o sorted_numbers(S \ {m})

\* the end of the run of digits that starts at position j of name
RECURSIVE DigitRunEnd(_, _)
DigitRunEnd(name, j) ==
    IF j + 1 <= Len(name) /\ IsDigit(name[j + 1]) THEN DigitRunEnd(name, j + 1) ELSE j

\* the positions where r'assignment_(\d+)' resp. r'(?:unit|note)_(\d+)' matches
ListMatchAt(kind, name) ==
    {i \in DOMAIN name :
        /\ upper(name[i]) \in KindTokens(kind)
        /\ i + 2 <= Len(name)
        /\ name[i + 1] = "_"
        /\ IsDigit(name[i + 2])}

\* int(m.group(1)) of re.search on a name that matches: the leftmost match,
\* its digits taken greedily
ListNumber(kind, name) ==
    LET i == CHOOSE k \in ListMatchAt(kind, name) : \A j \in ListMatchAt(kind, name) : k <= j
    IN  DigitsVal(SubSeq(name, i + 2, DigitRunEnd(name, i + 2)))

\* the set comprehension of list_assignments / list_notes
listed_numbers(kind, names) ==
    {ListNumber(kind, names[i]) : i \in {j \in DOMAIN names : ListMatchAt(kind, names[j]) # {}}}

\* ------------------------------------------------------- SQLite cache

\* a row's key columns under UNIQUE(year, group_name, subject, number)
SameKey(row, year, group_name, subject, number) ==
    /\ row.year = year
    /\ row.group_name = group_name
    /\ row.subject = subject
    /\ row.number = number

\* the SELECT with group_name and subject as given, not upper-cased
CacheSelect_exact(table, year, group_name, subject, number) ==
    LET rows == {r \in table : SameKey(r, year, group_name, subject, number)}
    IN  IF rows = {} THEN 0 ELSE (CHOOSE r \in rows : TRUE).telegram_file_id

\* SELECT telegram_file_id ... fetchone(); 0 stands for None
CacheSelect(table, year, group_name, subject, number) ==
    LET rows == {r \in table : SameKey(r, year, StrUpper(group_name), StrUpper(subject), number)}
    IN  IF rows = {} THEN 0 ELSE (CHOOSE r \in rows : TRUE).telegram_file_id

\* a plain INSERT into a table without the UNIQUE constraint
CacheUpsert_append(table, year, group_name, subject, number, file_id) ==
    table \cup {[year |-> year, group_name |-> StrUpper(group_name),
                  subject |-> StrUpper(subject), number |-> number,
                  telegram_file_id |-> file_id]}

\* INSERT OR REPLACE: the rows in conflict on the key are deleted, the new row added
CacheUpsert(table, year, group_name, subject, number, file_id) ==
    LET g == StrUpper(group_name)
        s == StrUpper(subject)
    IN  {r \in table : ~SameKey(r, year, g, s, number)}
            \cup {[year |-> year, group_name |-> g, subject |-> s,
                    number |-> number, telegram_file_id |-> file_id]}

get_cached_assignment_id(year, group_name, subject, assignment_number) ==
    CacheSelect(assignment_cache, year, group_name, subject, assignment_number)

\* INSERT OR IGNORE in place of INSERT OR REPLACE: a cached row is kept
cache_assignment_id_ignore(year, group_name, subject, assignment_number, file_id) ==
    IF get_cached_assignment_id(year, group_name, subject, assignment_number) # 0
    THEN assignment_cache
    ELSE CacheUpsert(assignment_cache, year, group_name, subject, assignment_number, file_id)

cache_assignment_id(year, group_name, subject, assignment_number, file_id) ==
    CacheUpsert(assignment_cache, year, group_name, subject, assignment_number, file_id)

get_cached_note_id(year, group_name, subject, note_number) ==
    CacheSelect(note_cache, year, group_name, subject, note_number)

\* INSERT in place of INSERT OR REPLACE, the table having no UNIQUE constraint
cache_note_id_append(year, group_name, subject, note_number, file_id) ==
    note_cache \cup {[year |-> year, group_name |-> StrUpper(group_name),
                       subject |-> StrUpper(subject), number |-> note_number,
                       telegram_file_id |-> file_id]}

cache_note_id(year, group_name, subject, note_number, file_id) ==
    CacheUpsert(note_cache, year, group_name, subject, note_number, file_id)

\* ------------------------------------------------------------ inputs

\* the texts a user sends when asked for the year
YearTexts == { <<"1st", " ", "Year">>, <<"2nd", " ", "Year">>, <<"Sam">> }

\* the texts a user sends when asked for the name
NameTexts == { <<"Sam">> }

\* the argument lists a user gives to /get and /getnote
FetchArgs ==
    { << <<"cse">>, <<"dbms">>, <<"2">> >>,
      << <<"CSE">>, <<"DBMS">>, <<"2">> >>,
      << <<"CSE">>, <<"DBMS">>, <<"1">> >>,
      << <<"CSE">>, <<"OS">>, <<"2">> >>,
      << <<"CSE">>, <<"DBMS">> >>,
      << <<"CSE">>, <<"DBMS">>, <<"x">> >>,
      << <<"CSE">>, <<"DBMS">>, <<"0">> >> }

\* the argument lists a user gives to /subjects
SubjectArgs == { <<>>, << <<"cse">> >> }

\* the argument lists a user gives to /assignments and /notes
NumberArgs ==
    { << <<"cse">>, <<"dbms">> >>,
      << <<"CSE">>, <<"OS">> >>,
      << <<"cse">> >> }

Kinds == {"Assignment", "Note"}

\* ----------------------------------------------------------- sessions

\* filters.Regex(r"^(1st|2nd|3rd|4th) Year$")
\* a year state that takes any text message
YearRegex_any(text) == TRUE

YearRegex(text) ==
    /\ Len(text) = 3
    /\ text[1] \in {"1st", "2nd", "3rd", "4th"}
    /\ text[2] = " "
    /\ text[3] = "Year"

\* 'year' in context.user_data
check_user_setup(u) == "year" \in DOMAIN user_data[u]

\* the command handlers registered under GET_NAME as well
InMainMenu_or_get_name(u) == conv[u] \in {"GET_NAME", "MAIN_MENU"}

\* the commands of MAIN_MENU are dispatched only in that conversation state
InMainMenu(u) == conv[u] = "MAIN_MENU"

\* An update of u is taken: its previous handler has returned and, unless
\* concurrent_updates is set, so has every other handler.
Dispatch(u) ==
    /\ h[u].pc = "idle"
    /\ concurrent_updates \/ \A v \in Users : h[v].pc = "idle"

\* the session as the setup flow leaves it: year and name both stored
Configured(u) == {"year", "year_display", "name"} \subseteq DOMAIN user_data[u]

\* no handler invocation in progress
Idle ==
    [pc |-> "idle", op |-> "none", args |-> <<>>, year |-> <<>>, group_name |-> <<>>,
     subject |-> <<>>, number |-> 0, configured |-> FALSE,
     before |-> <<{}, {}>>,
     cached_file_id |-> 0, redelivery |-> "none", folder_id |-> None,
     query |-> "none", file_id |-> None, download |-> "none",
     delivery |-> "none", sent |-> 0, outcome |-> "none", result |-> <<>>,
     redeliveries |-> 0, resolutions |-> 0, lookups |-> 0, lookup_error |-> 0, queries |-> 0,
     downloads |-> 0, deliveries |-> 0, puts |-> 0, documents |-> 0]

\* a handler that has ended with an outcome
Ended(rec, outcome) == [rec EXCEPT !.pc = "done", !.outcome = outcome]

\* a handler invocation of u that starts now
Begun(u, op) ==
    [Idle EXCEPT !.op = op, !.configured = Configured(u),
                 !.before = <<assignment_cache, note_cache>>]

\* /start: entry point, and fallback of every state
start(u) ==
    /\ Dispatch(u)
    /\ conv' = [conv EXCEPT ![u] = "SELECT_YEAR"]
    /\ UNCHANGED <<user_data, caches, h, concurrent_updates, probe, bot_user_data>>

\* /cancel: fallback of a running conversation
cancel(u) ==
    /\ Dispatch(u)
    /\ conv[u] # "END"
    /\ conv' = [conv EXCEPT ![u] = "END"]
    /\ UNCHANGED <<user_data, caches, h, concurrent_updates, probe, bot_user_data>>

\* select_year returning MAIN_MENU
select_year_to_menu(u, text) ==
    /\ Dispatch(u)
    /\ conv[u] = "SELECT_YEAR"
    /\ YearRegex(text)
    /\ user_data' = [user_data EXCEPT ![u] =
            ("year" :> StrReplace(text, " ", "_")) @@ ("year_display" :> text) @@ @]
    /\ conv' = [conv EXCEPT ![u] = "MAIN_MENU"]
    /\ UNCHANGED <<caches, h, concurrent_updates, probe, bot_user_data>>

select_year(u, text) ==
    /\ Dispatch(u)
    /\ conv[u] = "SELECT_YEAR"
    /\ YearRegex(text)
    /\ user_data' = [user_data EXCEPT ![u] =
            ("year" :> StrReplace(text, " ", "_")) @@ ("year_display" :> text) @@ @]
    /\ conv' = [conv EXCEPT ![u] = "GET_NAME"]
    /\ UNCHANGED <<caches, h, concurrent_updates, probe, bot_user_data>>

\* get_name without the assignment to user_data['name']
get_name_forgets(u, text) ==
    /\ Dispatch(u)
    /\ conv[u] = "GET_NAME"
    /\ conv' = [conv EXCEPT ![u] = "MAIN_MENU"]
    /\ UNCHANGED <<user_data, caches, h, concurrent_updates, probe, bot_user_data>>

get_name(u, text) ==
    /\ Dispatch(u)
    /\ conv[u] = "GET_NAME"
    /\ user_data' = [user_data EXCEPT ![u] = ("name" :> text) @@ @]
    /\ conv' = [conv EXCEPT ![u] = "MAIN_MENU"]
    /\ UNCHANGED <<caches, h, concurrent_updates, probe, bot_user_data>>

\* A command of MAIN_MENU sent in another conversation state matches no
\* handler of that state and no fallback: the update is dropped.
update_not_handled(u) ==
    /\ Dispatch(u)
    /\ ~InMainMenu(u)
    /\ h' = [h EXCEPT ![u] = Ended(Begun(u, "dropped"), "NotHandled")]
    /\ UNCHANGED <<session, caches, concurrent_updates, probe, bot_user_data>>

\* error_handler: what the user is told of an exception a handler let through
error_handler(error) == IF error = "TimedOut" THEN "TransientError" ELSE "Unhandled"

\* the lookup of a resolution that raised HttpError, given the lookup errAt
\* that would raise and the number of lookups made (0: none raised)
RaisedAt(errAt, lookups) == IF errAt \in 1..lookups THEN errAt ELSE 0

\* ------------------------------------------------- listing handlers

\* from the folder names to the reply: "No branches found" or the names in
\* sorted order
folders_reply(items) ==
    IF items = <<>> THEN [outcome |-> "NoItems", result |-> <<>>]
    ELSE [outcome |-> "Listed", result |-> sorted_names(items)]

\* /branches and /divisions
list_branches_or_divisions(u) ==
    /\ Dispatch(u)
    /\ InMainMenu(u)
    /\ IF ~check_user_setup(u)
       THEN h' = [h EXCEPT ![u] = Ended(Begun(u, "branches"), "NotConfigured")]
       ELSE \E find_failed \in BOOLEAN, list_failed \in BOOLEAN :
            LET year == user_data[u]["year"]
                year_folder_id ==
                    find_item_id_in_parent(year, GOOGLE_DRIVE_ROOT_FOLDER_ID, TRUE, find_failed)
                items == list_folders_in_parent(year_folder_id, list_failed)
                r1 == [Begun(u, "branches") EXCEPT !.year = year, !.lookups = 1,
                                                   !.lookup_error = RaisedAt(
                                                       IF find_failed THEN 1 ELSE 0, 1),
                                                   !.folder_id = year_folder_id]
                r2 == [r1 EXCEPT !.queries = 1]
            IN  h' = [h EXCEPT ![u] =
                    IF year_folder_id = None THEN Ended(r1, "NotFound")
                    ELSE Ended([r2 EXCEPT !.result = folders_reply(items).result],
                               folders_reply(items).outcome)]
    /\ UNCHANGED <<session, caches, concurrent_updates, probe, bot_user_data>>

\* /subjects <GROUP>
list_subjects(u, args) ==
    /\ Dispatch(u)
    /\ InMainMenu(u)
    /\ IF ~check_user_setup(u)
       THEN h' = [h EXCEPT ![u] = Ended(Begun(u, "subjects"), "NotConfigured")]
       ELSE IF Len(args) = 0
       THEN h' = [h EXCEPT ![u] = Ended(Begun(u, "subjects"), "Usage")]
       ELSE \E errAt \in 0..2, list_failed \in BOOLEAN :
            LET year == user_data[u]["year"]
                group_name == StrUpper(args[1])
                res == resolve_path_to_id(<<year, group_name>>, errAt)
                subjects == list_folders_in_parent(res.id, list_failed)
                r1 == [Begun(u, "subjects") EXCEPT
                          !.year = year, !.group_name = group_name,
                          !.resolutions = 1, !.lookups = res.lookups,
                          !.lookup_error = RaisedAt(errAt, res.lookups), !.folder_id = res.id]
                r2 == [r1 EXCEPT !.queries = 1]
            IN  h' = [h EXCEPT ![u] =
                    IF res.id = None THEN Ended(r1, "NotFound")
                    ELSE Ended([r2 EXCEPT !.result = folders_reply(subjects).result],
                               folders_reply(subjects).outcome)]
    /\ UNCHANGED <<session, caches, concurrent_updates, probe, bot_user_data>>

ListOp(kind) == IF kind = "Assignment" THEN "assignments" ELSE "notes"

\* from the set comprehension to the reply: "No assignments found" or the
\* numbers in sorted order
numbers_reply(kind, names) ==
    LET numbers == listed_numbers(kind, names)
    IN  IF numbers = {} THEN [outcome |-> "NoItems", result |-> <<>>]
        ELSE [outcome |-> "Listed", result |-> sorted_numbers(numbers)]

\* /assignments and /notes <GROUP> <SUBJECT>: the file listing is not in a
\* try block, its HttpError leaves the handler
list_numbers(u, kind, args) ==
    /\ Dispatch(u)
    /\ InMainMenu(u)
    /\ IF ~check_user_setup(u)
       THEN h' = [h EXCEPT ![u] = Ended(Begun(u, ListOp(kind)), "NotConfigured")]
       ELSE IF Len(args) # 2
       THEN h' = [h EXCEPT ![u] = Ended(Begun(u, ListOp(kind)), "Usage")]
       ELSE \E errAt \in 0..4, list_failed \in BOOLEAN :
            LET year == user_data[u]["year"]
                group_name == StrUpper(args[1])
                subject == StrUpper(args[2])
                res == resolve_path_to_id(
                           <<year, group_name, subject, KindFolder(kind)>>, errAt)
                reply == numbers_reply(kind, list_files(res.id))
                r1 == [Begun(u, ListOp(kind)) EXCEPT
                          !.year = year, !.group_name = group_name, !.subject = subject,
                          !.resolutions = 1, !.lookups = res.lookups,
                          !.lookup_error = RaisedAt(errAt, res.lookups), !.folder_id = res.id]
                r2 == [r1 EXCEPT !.queries = 1,
                                 !.query = IF list_failed THEN "HttpError" ELSE "ok"]
            IN  h' = [h EXCEPT ![u] =
                    IF res.id = None THEN Ended(r1, "NotFound")
                    ELSE IF list_failed THEN Ended(r2, error_handler("HttpError"))
                    ELSE Ended([r2 EXCEPT !.result = reply.result], reply.outcome)]
    /\ UNCHANGED <<session, caches, concurrent_updates, probe, bot_user_data>>

list_assignments(u, args) == list_numbers(u, "Assignment", args)

list_notes(u, args) == list_numbers(u, "Note", args)

\* ------------------------------------------- get_assignment / get_note

FetchOp(kind) == IF kind = "Assignment" THEN "get" ELSE "getnote"

CachedId(kind, rec) ==
    IF kind = "Assignment"
    THEN get_cached_assignment_id(rec.year, rec.group_name, rec.subject, rec.number)
    ELSE get_cached_note_id(rec.year, rec.group_name, rec.subject, rec.number)

CacheKey(kind, rec) == <<kind, rec.year, rec.group_name, rec.subject, rec.number>>

\* From the setup check to the placeholder message.
fetch_begin(u, kind, args) ==
    LET rec == Begun(u, FetchOp(kind))
    IN  /\ Dispatch(u)
        /\ InMainMenu(u)
        /\ h' = [h EXCEPT ![u] =
                IF ~check_user_setup(u) THEN Ended(rec, "NotConfigured")
                ELSE IF Len(args) # 3 THEN Ended(rec, "Usage")
                ELSE IF ~IsInt(args[3]) THEN Ended(rec, "BadNumber")
                ELSE [rec EXCEPT !.pc = "cache",
                                 !.args = args,
                                 !.year = user_data[u]["year"],
                                 !.group_name = StrUpper(args[1]),
                                 !.subject = StrUpper(args[2]),
                                 !.number = ParseInt(args[3])]]
        /\ UNCHANGED <<session, caches, concurrent_updates, probe, bot_user_data>>

\* the except clause sending the handler back to the cached send
after_cached_send_again(rec, reply) ==
    CASE reply = "ok" ->
           Ended([rec EXCEPT !.redelivery = reply, !.documents = @ + 1], "Delivered")
      [] reply = "send_failed" ->
           [rec EXCEPT !.redelivery = reply, !.pc = "cache"]
      [] reply = "delete_failed" ->
           [rec EXCEPT !.redelivery = reply, !.pc = "drive", !.documents = @ + 1]

\* The try block of a cache hit: send_document by the cached file_id, then
\* the deletion of the placeholder, then return; a TelegramError of either
\* call is caught and the handler goes on to Drive.
after_cached_send(rec, reply) ==
    CASE reply = "ok" ->
           Ended([rec EXCEPT !.redelivery = reply, !.documents = @ + 1], "Delivered")
      [] reply = "send_failed" ->
           [rec EXCEPT !.redelivery = reply, !.pc = "drive"]
      [] reply = "delete_failed" ->
           [rec EXCEPT !.redelivery = reply, !.pc = "drive", !.documents = @ + 1]

\* fetch_cached with an except clause that deletes the row of a file_id the
\* send has failed with
fetch_cached_evicting(u, kind) ==
    LET rec == h[u]
        cached_file_id == CachedId(kind, rec)
        tried == [rec EXCEPT !.cached_file_id = cached_file_id, !.redeliveries = @ + 1]
        kept(table) == { row \in table :
            ~SameKey(row, rec.year, rec.group_name, rec.subject, rec.number) }
    IN  /\ rec.pc = "cache"
        /\ IF cached_file_id = 0
           THEN /\ h' = [h EXCEPT ![u].pc = "drive"]
                /\ UNCHANGED <<assignment_cache, note_cache>>
           ELSE \E reply \in {"ok", "send_failed", "delete_failed"} :
                   /\ h' = [h EXCEPT ![u] = after_cached_send(tried, reply)]
                   /\ IF reply = "ok"
                      THEN UNCHANGED <<assignment_cache, note_cache>>
                      ELSE /\ assignment_cache' = IF kind = "Assignment"
                                THEN kept(assignment_cache) ELSE assignment_cache
                           /\ note_cache' = IF kind = "Note"
                                THEN kept(note_cache) ELSE note_cache
        /\ UNCHANGED <<session, lastPut, lastWriter, concurrent_updates, probe, bot_user_data>>

\* fetch_cached over a cache kept per user: a row that another user's
\* request has put is not read
fetch_cached_own(u, kind) ==
    LET rec == h[u]
        cached_file_id == IF lastWriter = u THEN CachedId(kind, rec) ELSE 0
        tried == [rec EXCEPT !.cached_file_id = cached_file_id, !.redeliveries = @ + 1]
    IN  /\ rec.pc = "cache"
        /\ IF cached_file_id = 0
           THEN h' = [h EXCEPT ![u].pc = "drive"]
           ELSE \E reply \in {"ok", "send_failed", "delete_failed"} :
                   h' = [h EXCEPT ![u] = after_cached_send(tried, reply)]
        /\ UNCHANGED <<session, caches, concurrent_updates, probe, bot_user_data>>

\* The cache read and, on a hit, the redelivery.
fetch_cached(u, kind) ==
    LET rec == h[u]
        cached_file_id == CachedId(kind, rec)
        tried == [rec EXCEPT !.cached_file_id = cached_file_id, !.redeliveries = @ + 1]
    IN  /\ rec.pc = "cache"
        /\ IF cached_file_id = 0
           THEN h' = [h EXCEPT ![u].pc = "drive"]
           ELSE \E reply \in {"ok", "send_failed", "delete_failed"} :
                   h' = [h EXCEPT ![u] = after_cached_send(tried, reply)]
        /\ UNCHANGED <<session, caches, concurrent_updates, probe, bot_user_data>>

\* a failed download reported with the words of a missing file
after_download_not_found(rec, file_content) ==
    IF file_content # None
    THEN [rec EXCEPT !.download = "ok", !.pc = "deliver"]
    ELSE Ended([rec EXCEPT !.download = "failed"], "NotFound")

\* if file_content: ... else: "Error downloading the file from Google Drive"
after_download(rec, file_content) ==
    IF file_content # None
    THEN [rec EXCEPT !.download = "ok", !.pc = "deliver"]
    ELSE Ended([rec EXCEPT !.download = "failed"], "TransientError")

\* Resolution, file query and download: lookup number errAt (0: none), the
\* query and the download may each raise HttpError.  The query is not in a
\* try block.
fetch_drive(u, kind) ==
    \E errAt \in 0..4 :
        LET rec == h[u]
            res == resolve_path_to_id(
                       <<rec.year, rec.group_name, rec.subject, KindFolder(kind)>>, errAt)
            files == query_files(res.id, kind, rec.number)
            r1 == [rec EXCEPT !.resolutions = @ + 1, !.lookups = @ + res.lookups,
                              !.lookup_error = RaisedAt(errAt, res.lookups),
                              !.folder_id = res.id]
            r2 == [r1 EXCEPT !.queries = @ + 1]
            r3 == [r2 EXCEPT !.query = "ok", !.downloads = @ + 1, !.file_id = files[1].id]
        IN  /\ rec.pc = "drive"
            /\ IF res.id = None
               THEN h' = [h EXCEPT ![u] = Ended(r1, "NotFound")]
               ELSE \E query_failed \in BOOLEAN :
                    IF query_failed
                    THEN h' = [h EXCEPT ![u] =
                             Ended([r2 EXCEPT !.query = "HttpError"], error_handler("HttpError"))]
                    ELSE IF Len(files) = 0
                    THEN h' = [h EXCEPT ![u] = Ended([r2 EXCEPT !.query = "ok"], "NotFound")]
                    ELSE \E download_failed \in BOOLEAN :
                         h' = [h EXCEPT ![u] =
                             after_download(r3, download_file_from_drive(files[1], download_failed))]
            /\ UNCHANGED <<session, caches, concurrent_updates, probe, bot_user_data>>

\* send_document of the downloaded content, then the cache write with the
\* file_id Telegram returned; a TelegramError of the send leaves the handler.
fetch_deliver(u, kind) ==
    \E reply \in {"ok", "TimedOut", "TelegramError"} :
        LET rec == h[u]
            tried == [rec EXCEPT !.deliveries = @ + 1, !.delivery = reply]
        IN  /\ rec.pc = "deliver"
            /\ IF reply = "ok"
               THEN \E file_id \in Handles :
                    /\ h' = [h EXCEPT ![u] =
                            Ended([tried EXCEPT !.sent = file_id, !.puts = @ + 1,
                                                !.documents = @ + 1], "Delivered")]
                    /\ IF kind = "Assignment"
                       THEN /\ assignment_cache' = cache_assignment_id(
                                   rec.year, rec.group_name, rec.subject, rec.number, file_id)
                            /\ UNCHANGED note_cache
                       ELSE /\ note_cache' = cache_note_id(
                                   rec.year, rec.group_name, rec.subject, rec.number, file_id)
                            /\ UNCHANGED assignment_cache
                    /\ lastPut' = (CacheKey(kind, rec) :> file_id) @@ lastPut
                    /\ lastWriter' = u
               ELSE /\ h' = [h EXCEPT ![u] = Ended(tried, error_handler(reply))]
                    /\ UNCHANGED caches
            /\ UNCHANGED <<session, concurrent_updates, probe, bot_user_data>>

get_assignment(u) ==
    \/ \E args \in FetchArgs : fetch_begin(u, "Assignment", args)
    \/ h[u].op = "get" /\ fetch_cached(u, "Assignment")
    \/ h[u].op = "get" /\ fetch_drive(u, "Assignment")
    \/ h[u].op = "get" /\ fetch_deliver(u, "Assignment")

get_note(u) ==
    \/ \E args \in FetchArgs : fetch_begin(u, "Note", args)
    \/ h[u].op = "getnote" /\ fetch_cached(u, "Note")
    \/ h[u].op = "getnote" /\ fetch_drive(u, "Note")
    \/ h[u].op = "getnote" /\ fetch_deliver(u, "Note")

\* the handler returns and the next update is taken
handler_returns(u) ==
    /\ h[u].pc = "done"
    /\ h' = [h EXCEPT ![u] = Idle]
    /\ UNCHANGED <<session, caches, concurrent_updates, probe, bot_user_data>>

\* ------------------------------------------------------ specification

\* no function applied alone
Unprobed ==
    [fn |-> "none", path_parts |-> <<>>, kind |-> "Assignment", number |-> 0,
     names |-> <<>>, id |-> None, lookups |-> 0, files |-> <<>>, numbers |-> <<>>,
     items |-> <<>>, outcome |-> "none", user |-> None, text |-> <<>>]

\* the state after setup_database() on a new volume and before the first update
Init ==
    /\ user_data = [u \in Users |-> <<>>]
    /\ conv = [u \in Users |-> "END"]
    /\ assignment_cache = {}
    /\ note_cache = {}
    /\ h = [u \in Users |-> Idle]
    /\ concurrent_updates = FALSE
    /\ lastPut = <<>>
    /\ lastWriter = None
    /\ bot_user_data = <<>>
    /\ probe = Unprobed

Next ==
    \E u \in Users :
        \/ start(u)
        \/ cancel(u)
        \/ \E text \in YearTexts : select_year(u, text)
        \/ \E text \in NameTexts : get_name(u, text)
        \/ update_not_handled(u)
        \/ list_branches_or_divisions(u)
        \/ \E args \in SubjectArgs : list_subjects(u, args)
        \/ \E args \in NumberArgs : list_assignments(u, args)
        \/ \E args \in NumberArgs : list_notes(u, args)
        \/ get_assignment(u)
        \/ get_note(u)
        \/ handler_returns(u)

Spec == Init /\ [][Next]_vars

\* Application.builder().concurrent_updates(True): the /get handlers of
\* users who have completed the setup, interleaving at their awaits
InitConcurrent ==
    /\ user_data = [u \in Users |->
            [year |-> <<"2nd", "_", "Year">>, year_display |-> <<"2nd", " ", "Year">>,
             name |-> <<"Sam">>]]
    /\ conv = [u \in Users |-> "MAIN_MENU"]
    /\ assignment_cache = {}
    /\ note_cache = {}
    /\ h = [u \in Users |-> Idle]
    /\ concurrent_updates = TRUE
    /\ lastPut = <<>>
    /\ lastWriter = None
    /\ bot_user_data = <<>>
    /\ probe = Unprobed

NextConcurrent ==
    \E u \in Users :
        \/ get_assignment(u)
        \/ handler_returns(u)

SpecConcurrent == InitConcurrent /\ [][NextConcurrent]_vars

\* ------------------------------------------------------------- claims

Fetching(u) == h[u].op \in {"get", "getnote"}

KindOf(op) == IF op = "get" THEN "Assignment" ELSE "Note"

\* the handle the cache now holds under the key of u's request (0: none)
CachedNow(u) == CachedId(KindOf(h[u].op), h[u])

\* the two tables are as they were when u's request began
CacheAsBefore(u) == <<assignment_cache, note_cache>> = h[u].before

\* the document was sent by the cached file_id
RedeliverySent(u) == h[u].redelivery \in {"ok", "delete_failed"}

\* C1 (as claimed): a fetch request whose key is cached and whose redelivery
\* by the cached handle succeeds ends as delivered, makes no folder lookup,
\* no file query and no download, and leaves the cache unchanged.
C1_FastPath ==
    \A u \in Users :
        (Fetching(u) /\ h[u].cached_file_id # 0 /\ RedeliverySent(u)) =>
            /\ h[u].lookups = 0
            /\ h[u].queries = 0
            /\ h[u].downloads = 0
            /\ CacheAsBefore(u)
            /\ h[u].pc = "done" => h[u].outcome = "Delivered"

\* C2: when the cached handle is rejected by Telegram and the file exists in
\* Drive, downloads and is delivered, the request has made exactly one path
\* resolution, one file query and one download, ends as delivered, and the
\* cache holds under the request's key the file_id of the fresh delivery.
C2_StaleRecovery ==
    \A u \in Users :
        (/\ Fetching(u)
         /\ h[u].pc = "done"
         /\ h[u].cached_file_id # 0
         /\ h[u].redelivery = "send_failed"
         /\ h[u].download = "ok"
         /\ h[u].delivery = "ok") =>
            /\ h[u].outcome = "Delivered"
            /\ h[u].resolutions = 1
            /\ h[u].queries = 1
            /\ h[u].downloads = 1
            /\ h[u].deliveries = 1
            /\ h[u].sent # 0
            /\ CachedNow(u) = h[u].sent

\* a request recovered from a rejected handle, the fresh handle being another
C2_Recovered ==
    \E u \in Users :
        /\ Fetching(u)
        /\ h[u].pc = "done"
        /\ h[u].redelivery = "send_failed"
        /\ h[u].delivery = "ok"
        /\ h[u].sent # h[u].cached_file_id
        /\ CachedNow(u) = h[u].sent

FailureOutcomes == {"NotFound", "TransientError", "Unhandled"}

\* C3: a fetch request that ends in not-found or in an error outcome leaves
\* both cache tables exactly as they were when it began; a handle Telegram
\* has just rejected is still the one cached under the key.
C3_FailureKeepsCache ==
    \A u \in Users :
        (Fetching(u) /\ h[u].pc = "done" /\ h[u].outcome \in FailureOutcomes) =>
            /\ CacheAsBefore(u)
            /\ h[u].puts = 0
            /\ CachedNow(u) = h[u].cached_file_id

\* a request that failed after its cached handle was rejected
C3_FailedAfterRejection ==
    \E u \in Users :
        /\ Fetching(u)
        /\ h[u].pc = "done"
        /\ h[u].outcome \in FailureOutcomes
        /\ h[u].redelivery = "send_failed"
        /\ h[u].cached_file_id # 0
        /\ CachedNow(u) = h[u].cached_file_id

C5_DeliveryFailure ==
    \A u \in Users :
        (Fetching(u) /\ h[u].download = "ok"
                     /\ h[u].delivery \in {"TimedOut", "TelegramError"}) =>
            /\ h[u].pc = "done"
            /\ h[u].outcome = "TransientError"
            /\ h[u].puts = 0
            /\ CacheAsBefore(u)

\* C6 (as claimed): a Drive error raised by the file query of a fetch or of
\* a number listing ends the request in an outcome the user is told of:
\* not-found, nothing-to-list or transient error.
C6_QueryError ==
    \A u \in Users :
        (h[u].op \in {"get", "getnote", "assignments", "notes"}
                /\ h[u].query = "HttpError") =>
            /\ h[u].pc = "done"
            /\ h[u].outcome \in {"NotFound", "NoItems", "TransientError"}

\* the operations of the main menu
Operations ==
    {"branches", "subjects", "assignments", "notes", "get", "getnote"}

\* u's handler has touched Drive, a cache table or the document channel
Touched(u) ==
    \/ h[u].pc \in {"cache", "drive", "deliver"}
    \/ h[u].lookups + h[u].queries + h[u].downloads > 0
    \/ h[u].redeliveries + h[u].deliveries + h[u].documents + h[u].puts > 0
    \/ h[u].cached_file_id # 0

\* C7: a request touches Drive, the cache or the document channel only if
\* the user's year and name were stored when it began; an update of a user
\* who is not in the main menu is dropped before any such step.
C7_SessionGating ==
    \A u \in Users :
        /\ Touched(u) => (h[u].configured /\ h[u].op \in Operations)
        /\ (h[u].pc # "idle" /\ ~h[u].configured) =>
                (h[u].pc = "done" /\ h[u].outcome \in {"NotHandled", "NotConfigured"})

\* a configured user's fetch has looked folders up while another user, who
\* has not completed the setup, is outside the main menu
C7_GatedAndServed ==
    \E u, v \in Users :
        /\ Fetching(u) /\ h[u].lookups > 0 /\ h[u].configured
        /\ ~Configured(v) /\ ~InMainMenu(v)

\* C8 (as claimed): check_user_setup is true only if the year selection and
\* the name entry have both been completed.
C8_CheckMeansBoth ==
    \A u \in Users : check_user_setup(u) => Configured(u)

\* C8 (amended): check_user_setup tests the year alone, but it is evaluated
\* only in the main menu, where year, year_display and name are all stored:
\* every operation that has passed the check began with both completed.
C8_CheckInMainMenu ==
    \A u \in Users :
        /\ InMainMenu(u) => (check_user_setup(u) /\ Configured(u))
        /\ (h[u].op \in Operations /\ h[u].outcome # "NotConfigured") =>
                h[u].configured

\* an operation of one user has passed the check with year and name stored,
\* while the check is true of another user whose name is not stored yet
C8_PassedWithBoth ==
    \E u, v \in Users :
        /\ InMainMenu(u) /\ h[u].pc = "done" /\ h[u].op \in Operations
        /\ h[u].outcome # "NotConfigured" /\ h[u].configured
        /\ check_user_setup(v) /\ "name" \notin DOMAIN user_data[v]

\* C9 (as claimed): after /start or /cancel the stored session of the user
\* is cleared until a year is selected again.
C9_ResetClears ==
    \A u \in Users :
        conv[u] \in {"END", "SELECT_YEAR"} => ~check_user_setup(u)

\* the conversation of u moves along the setup flow or is reset
C9_Flow(u) ==
    /\ conv'[u] = "MAIN_MENU" => conv[u] \in {"MAIN_MENU", "GET_NAME"}
    /\ conv'[u] = "GET_NAME" => conv[u] \in {"GET_NAME", "SELECT_YEAR"}
    /\ conv'[u] \in {"END", "SELECT_YEAR"} => user_data'[u] = user_data[u]
    /\ (h'[u] # h[u] /\ h'[u].op \in Operations) => conv[u] = "MAIN_MENU"

\* C9 (amended): /start and /cancel leave the stored year and name as they
\* are and take the user out of the main menu; no operation is served to
\* the user until a year and then a name have been given anew.
C9_ResetGates == [][\A u \in Users : C9_Flow(u)]_vars

\* a configured user has reset, the stored values are kept, and a command
\* sent since was dropped
C9_AfterReset ==
    \E u \in Users :
        /\ conv[u] \in {"END", "SELECT_YEAR"}
        /\ Configured(u)
        /\ h[u].pc = "done"
        /\ h[u].outcome = "NotHandled"

\* ------------------------------------------- the cache tables alone

CacheYears == { <<"2nd", "_", "Year">> }

CacheGroups == { <<"cse">>, <<"CSE">>, <<"ECE">> }

CacheSubjects == { <<"dbms">> }

CacheNumbers == {1, 2}

\* the key a put is remembered under
PutKey(kind, year, group_name, subject, number) ==
    <<kind, year, StrUpper(group_name), StrUpper(subject), number>>

put_assignment(year, group_name, subject, number, file_id) ==
    /\ assignment_cache' = cache_assignment_id(year, group_name, subject, number, file_id)
    /\ lastPut' = (PutKey("Assignment", year, group_name, subject, number) :> file_id)
                        @@ lastPut
    /\ UNCHANGED <<session, note_cache, lastWriter, h, concurrent_updates, probe, bot_user_data>>

put_note(year, group_name, subject, number, file_id) ==
    /\ note_cache' = cache_note_id(year, group_name, subject, number, file_id)
    /\ lastPut' = (PutKey("Note", year, group_name, subject, number) :> file_id)
                        @@ lastPut
    /\ UNCHANGED <<session, assignment_cache, lastWriter, h, concurrent_updates, probe, bot_user_data>>

NextCache ==
    \E year \in CacheYears, group_name \in CacheGroups, subject \in CacheSubjects,
       number \in CacheNumbers, file_id \in Handles :
        \/ put_assignment(year, group_name, subject, number, file_id)
        \/ put_note(year, group_name, subject, number, file_id)

SpecCache == Init /\ [][NextCache]_vars

\* the get of the table that key belongs to
CacheGet(key) ==
    IF key[1] = "Assignment"
    THEN get_cached_assignment_id(key[2], key[3], key[4], key[5])
    ELSE get_cached_note_id(key[2], key[3], key[4], key[5])

\* C10: in both tables, the get of a key returns the handle of the last put
\* under that key, whatever puts to other keys have followed.
C10_ReadAfterWrite ==
    \A key \in DOMAIN lastPut : CacheGet(key) = lastPut[key]

\* both tables hold several keys with different handles
C10_SeveralKeys ==
    \E k1, k2, k3 \in DOMAIN lastPut :
        /\ k1[1] = "Assignment" /\ k2[1] = "Assignment" /\ k3[1] = "Note"
        /\ k1 # k2
        /\ lastPut[k1] # lastPut[k2]
        /\ CacheGet(k1) = lastPut[k1]
        /\ CacheGet(k3) = lastPut[k3]

\* the rows a table holds when each key put so far has one row, with the
\* handle of the last put under it
RowsOfLastPuts(kind) ==
    {[year |-> key[2], group_name |-> key[3], subject |-> key[4], number |-> key[5],
      telegram_file_id |-> lastPut[key]] : key \in {k \in DOMAIN lastPut : k[1] = kind}}

\* no two rows of the table under one key
OneRowPerKey(table) ==
    \A r1, r2 \in table :
        SameKey(r1, r2.year, r2.group_name, r2.subject, r2.number) => r1 = r2

\* C11: each table holds at most one row per normalized key; a put under a
\* key that has a row replaces its handle, adds no second row and leaves
\* the rows of all other keys as they were.
C11_UniqueReplace ==
    /\ OneRowPerKey(assignment_cache)
    /\ OneRowPerKey(note_cache)
    /\ assignment_cache = RowsOfLastPuts("Assignment")
    /\ note_cache = RowsOfLastPuts("Note")

\* every key of the note table has been put, two of them with different handles
C11_FullTable ==
    /\ Cardinality(note_cache) = Cardinality(CacheNumbers) * 2
    /\ \E r1, r2 \in note_cache : r1.telegram_file_id # r2.telegram_file_id
    /\ OneRowPerKey(note_cache)

\* u's fetch has parsed its arguments
Parsed(u) == Fetching(u) /\ Len(h[u].args) = 3

\* the get of u's key with group and subject spelled as in args
GetAsSpelled(u, args) ==
    IF h[u].op = "get"
    THEN get_cached_assignment_id(h[u].year, args[1], args[2], h[u].number)
    ELSE get_cached_note_id(h[u].year, args[1], args[2], h[u].number)

\* args names u's year, kind and number with group and subject in some case
SameButCase(u, args) ==
    /\ Len(args) = 3
    /\ IsInt(args[3])
    /\ ParseInt(args[3]) = h[u].number
    /\ StrUpper(args[1]) = StrUpper(h[u].args[1])
    /\ StrUpper(args[2]) = StrUpper(h[u].args[2])

\* C12: group and subject are upper-cased before use: every spelling of a
\* request's group and subject that differs only in case reads the one
\* cache entry that a put under the key wrote, and the folders looked up
\* are the upper-cased names.
C12_CaseNormalized ==
    \A u \in Users :
        Parsed(u) =>
            /\ h[u].group_name = StrUpper(h[u].args[1])
            /\ h[u].subject = StrUpper(h[u].args[2])
            /\ \A args \in FetchArgs :
                    SameButCase(u, args) =>
                        /\ GetAsSpelled(u, args) = CachedNow(u)
                        /\ CacheKey(KindOf(h[u].op), h[u]) \in DOMAIN lastPut =>
                              GetAsSpelled(u, args) = lastPut[CacheKey(KindOf(h[u].op), h[u])]
            /\ h[u].folder_id # None =>
                    h[u].folder_id = resolve_path_to_id(
                        <<h[u].year, StrUpper(h[u].args[1]), StrUpper(h[u].args[2]),
                          KindFolder(KindOf(h[u].op))>>, 0).id

\* a request spelled in lower case has hit the row stored in upper case and,
\* the handle being rejected, has resolved the upper-cased folders
C12_LowerCaseHit ==
    \E u \in Users :
        /\ Parsed(u)
        /\ h[u].args[1] = <<"cse">>
        /\ h[u].cached_file_id # 0
        /\ \E r \in assignment_cache \cup note_cache : r.group_name = <<"CSE">>
        /\ h[u].folder_id # None

\* ------------------------------------------- resolve_path_to_id alone

\* the longest path_parts a handler passes
MaxSegments == 4

SegmentNames ==
    { <<"2nd", "_", "Year">>, <<"CSE">>, <<"DBMS">>, <<"OS">>,
      <<"Assignments">>, <<"Notes">> }

Paths == UNION { [1..n -> SegmentNames] : n \in 0..MaxSegments }

InitResolve ==
    /\ user_data = [u \in Users |-> <<>>]
    /\ conv = [u \in Users |-> "END"]
    /\ assignment_cache = {}
    /\ note_cache = {}
    /\ h = [u \in Users |-> Idle]
    /\ concurrent_updates = FALSE
    /\ lastPut = <<>>
    /\ lastWriter = None
    /\ bot_user_data = <<>>
    /\ probe \in {[Unprobed EXCEPT !.path_parts = path_parts] : path_parts \in Paths}

\* resolve_path_to_id(path_parts), no lookup raising
probe_resolve ==
    LET res == resolve_path_to_id(probe.path_parts, 0)
    IN  /\ probe.fn = "none"
        /\ probe' = [probe EXCEPT !.fn = "resolve", !.id = res.id, !.lookups = res.lookups]
        /\ UNCHANGED <<session, caches, h, concurrent_updates, bot_user_data>>

SpecResolve == InitResolve /\ [][probe_resolve]_vars

\* the first child folder of parent_id with that name, in the order of the API
FirstChild(parent_id, name) ==
    LET I == {i \in DOMAIN DRIVE : /\ DRIVE[i].folder
                                    /\ DRIVE[i].parent = parent_id
                                    /\ DRIVE[i].name = name}
    IN  IF I = {} THEN None ELSE DRIVE[CHOOSE i \in I : \A j \in I : i <= j].id

\* the folder that the first i segments lead to from the root, None if a
\* segment among them has no matching child
RECURSIVE Reached(_, _)
Reached(path_parts, i) ==
    IF i = 0 THEN GOOGLE_DRIVE_ROOT_FOLDER_ID
    ELSE IF Reached(path_parts, i - 1) = None THEN None
    ELSE FirstChild(Reached(path_parts, i - 1), path_parts[i])

\* the 1-based position of the first segment without a matching child, 0 if none
FirstMiss(path_parts) ==
    LET M == {i \in DOMAIN path_parts : Reached(path_parts, i) = None}
    IN  IF M = {} THEN 0 ELSE CHOOSE i \in M : \A j \in M : i <= j

\* C13: when the first segment without a matching child folder is the i-th
\* counted from 0, resolve_path_to_id returns None after exactly i+1
\* lookups, none of them for a later segment; when every segment matches it
\* returns the folder reached after one lookup per segment.
C13_FailFast ==
    probe.fn = "resolve" =>
        IF FirstMiss(probe.path_parts) = 0
        THEN /\ probe.id = Reached(probe.path_parts, Len(probe.path_parts))
             /\ probe.id # None
             /\ probe.lookups = Len(probe.path_parts)
        ELSE /\ probe.id = None
             /\ probe.lookups = FirstMiss(probe.path_parts)

\* a path of four segments whose second segment is missing: two lookups
C13_MissAtSecond ==
    /\ probe.fn = "resolve"
    /\ Len(probe.path_parts) = 4
    /\ FirstMiss(probe.path_parts) = 2
    /\ probe.lookups = 2
    /\ probe.id = None

\* the folders u's request resolves, in order
RequestPath(u) ==
    CASE h[u].op = "branches" -> <<h[u].year>>
      [] h[u].op = "subjects" -> <<h[u].year, h[u].group_name>>
      [] h[u].op \in {"assignments", "get"} ->
            <<h[u].year, h[u].group_name, h[u].subject, KindFolder("Assignment")>>
      [] h[u].op \in {"notes", "getnote"} ->
            <<h[u].year, h[u].group_name, h[u].subject, KindFolder("Note")>>

\* the path with its i-th segment replaced by a name no folder has
WithMissing(path_parts, i) == [path_parts EXCEPT ![i] = <<"missing">>]

\* C14: a Drive error raised by the lookup of a segment ends the resolution
\* at that lookup with None, the same result after the same number of
\* lookups as if the segment had no matching folder; the lookup is not
\* repeated, nothing further is asked of Drive, and the request ends in the
\* not-found outcome.
C14_FailSoft ==
    \A u \in Users :
        h[u].lookup_error # 0 =>
            /\ h[u].folder_id = None
            /\ h[u].lookups = h[u].lookup_error
            /\ resolve_path_to_id(WithMissing(RequestPath(u), h[u].lookup_error), 0)
                    = [id |-> h[u].folder_id, lookups |-> h[u].lookups]
            /\ h[u].queries = 0
            /\ h[u].downloads = 0
            /\ h[u].pc = "done"
            /\ h[u].outcome = "NotFound"

\* a fetch of a file that exists has ended in not-found because the lookup
\* of the second segment raised
C14_ErrorAtSecond ==
    \E u \in Users :
        /\ Fetching(u)
        /\ h[u].lookup_error = 2
        /\ FirstMiss(RequestPath(u)) = 0
        /\ h[u].outcome = "NotFound"

\* ------------------------------ the file query and the listing alone

\* the most files of a kind folder
MaxFiles == 3

\* names a file of a kind folder may have
FileNames ==
    { <<"assignment", "_", "1">>,
      <<"assignment", "_", "1", ".", "pdf">>,
      <<"assignment", "_", "1", "0">>,
      <<"assignment", "_", "1", "2">>,
      <<"ASSIGNMENT", "2", ".", "pdf">>,
      <<"Unit", "_", "2", ".", "pdf">>,
      <<"note", "_", "1", "2", ".", "pdf">>,
      <<"final", ".", "pdf">> }

\* the children of a kind folder, in the order the API lists them
Folders == UNION { [1..n -> FileNames] : n \in 0..MaxFiles }

\* the numbers a user asks for
ProbeNumbers == {1, 2, 10}

InitNames ==
    /\ user_data = [u \in Users |-> <<>>]
    /\ conv = [u \in Users |-> "END"]
    /\ assignment_cache = {}
    /\ note_cache = {}
    /\ h = [u \in Users |-> Idle]
    /\ concurrent_updates = FALSE
    /\ lastPut = <<>>
    /\ lastWriter = None
    /\ bot_user_data = <<>>
    /\ probe \in {[Unprobed EXCEPT !.names = names, !.kind = kind, !.number = number] :
                    names \in Folders, kind \in Kinds, number \in ProbeNumbers}

\* the file query of get_assignment / get_note on a folder of these names
probe_query ==
    /\ probe.fn = "none"
    /\ probe' = [probe EXCEPT !.fn = "query",
                              !.files = query_names(probe.kind, probe.number, probe.names)]
    /\ UNCHANGED <<session, caches, h, concurrent_updates, bot_user_data>>

\* the tail of list_assignments / list_notes on a folder of these names
probe_list ==
    LET reply == numbers_reply(probe.kind, probe.names)
    IN  /\ probe.fn = "none"
        /\ probe' = [probe EXCEPT !.fn = "list", !.numbers = reply.result,
                                  !.outcome = reply.outcome]
        /\ UNCHANGED <<session, caches, h, concurrent_updates, bot_user_data>>

NextNames == probe_query \/ probe_list

SpecNames == InitNames /\ [][NextNames]_vars

Range(seq) == {seq[i] : i \in DOMAIN seq}

\* the digits of number stand at position j of name and no digit follows them
DigitsAt(name, j, number) ==
    LET ds == IntStr(number)
    IN  /\ j + Len(ds) - 1 <= Len(name)
        /\ SubSeq(name, j, j + Len(ds) - 1) = ds
        /\ j + Len(ds) <= Len(name) => ~StartsWithDigit(name[j + Len(ds)])

\* name holds the kind token followed, with or without an underscore, by
\* exactly the digits of number
Adjacent(kind, number, name) ==
    \E i \in DOMAIN name :
        /\ upper(name[i]) \in KindTokens(kind)
        /\ \/ DigitsAt(name, i + 1, number)
           \/ i + 1 <= Len(name) /\ name[i + 1] = "_" /\ DigitsAt(name, i + 2, number)

\* C15 (as claimed): the fetch query selects exactly the files whose name
\* holds the kind token followed by the digits of the number asked for and
\* by no further digit.
C15_DigitAdjacency ==
    probe.fn = "query" =>
        \A i \in DOMAIN probe.names :
            probe.names[i] \in Range(probe.files)
                <=> Adjacent(probe.kind, probe.number, probe.names[i])

\* C16 (as claimed): a number is listed for a folder if and only if the
\* fetch query for that number selects a file of the folder.
C16_ListedIffFetched ==
    probe.fn = "list" =>
        \A n \in ProbeNumbers \cup Range(probe.numbers) :
            n \in Range(probe.numbers)
                <=> query_names(probe.kind, n, probe.names) # <<>>

\* the digits after the underscore of the leftmost numbering token of name
\* end at position e and are worth n
Numbered(kind, name, n) ==
    \E i \in DOMAIN name, e \in DOMAIN name :
        /\ i + 2 <= e
        /\ upper(name[i]) \in KindTokens(kind) /\ name[i + 1] = "_"
        /\ \A j \in (i + 2)..e : IsDigit(name[j])
        /\ e + 1 <= Len(name) => ~IsDigit(name[e + 1])
        /\ \A k \in 1..(i - 1) :
                ~(/\ upper(name[k]) \in KindTokens(kind)
                  /\ name[k + 1] = "_"
                  /\ IsDigit(name[k + 2]))
        /\ n = DigitsVal(SubSeq(name, i + 2, e))

\* the numbers that the digits of FileNames can spell
NumbersInNames == 0..12

\* C17: the listed numbers are exactly the numbers of the file names that
\* carry a numbering token, each once, in strictly ascending order; a name
\* without a token adds nothing; when no name carries one the reply is the
\* empty list with the no-items outcome.
C17_ListShape ==
    probe.fn = "list" =>
        /\ \A i, j \in DOMAIN probe.numbers : i < j => probe.numbers[i] < probe.numbers[j]
        /\ \A n \in NumbersInNames :
                n \in Range(probe.numbers)
                    <=> \E name \in Range(probe.names) : Numbered(probe.kind, name, n)
        /\ \A n \in Range(probe.numbers) : n \in NumbersInNames
        /\ probe.outcome = IF probe.numbers = <<>> THEN "NoItems" ELSE "Listed"
        /\ probe.outcome = "NoItems"
                <=> \A name \in Range(probe.names), n \in NumbersInNames :
                        ~Numbered(probe.kind, name, n)

\* a folder that lists assignment_10 before assignment_1 and holds a file
\* without a token: the listing is 1, 10
C17_Listed ==
    /\ probe.fn = "list"
    /\ Len(probe.names) = 3
    /\ probe.names[1] = <<"assignment", "_", "1", "0">>
    /\ <<"final", ".", "pdf">> \in Range(probe.names)
    /\ probe.numbers = <<1, 10>>
    /\ probe.outcome = "Listed"

\* --------------------------------------------- the folder listing alone

\* the most child folders of a year or group folder
MaxFolders == 3

FolderNames == { <<"A">>, <<"B">>, <<"C">>, <<"CSE">>, <<"2nd", "_", "Year">> }

\* the child folders list_folders_in_parent returns, in the order of the API
FolderLists == UNION { [1..n -> FolderNames] : n \in 0..MaxFolders }

InitFolders ==
    /\ user_data = [u \in Users |-> <<>>]
    /\ conv = [u \in Users |-> "END"]
    /\ assignment_cache = {}
    /\ note_cache = {}
    /\ h = [u \in Users |-> Idle]
    /\ concurrent_updates = FALSE
    /\ lastPut = <<>>
    /\ lastWriter = None
    /\ bot_user_data = <<>>
    /\ probe \in {[Unprobed EXCEPT !.names = items] : items \in FolderLists}

\* the tail of list_branches_or_divisions / list_subjects on these folders
probe_folders ==
    LET reply == folders_reply(probe.names)
    IN  /\ probe.fn = "none"
        /\ probe' = [probe EXCEPT !.fn = "folders", !.items = reply.result,
                                  !.outcome = reply.outcome]
        /\ UNCHANGED <<session, caches, h, concurrent_updates, bot_user_data>>

SpecFolders == InitFolders /\ [][probe_folders]_vars

\* how many times x occurs in seq
Count(seq, x) == Cardinality({i \in DOMAIN seq : seq[i] = x})

\* C18: the groups and the subjects listed are the names of the child
\* folders that Drive returned, every one of them and no other, in ascending
\* order.
C18_FoldersSorted ==
    probe.fn = "folders" =>
        /\ Len(probe.items) = Len(probe.names)
        /\ \A x \in FolderNames : Count(probe.items, x) = Count(probe.names, x)
        /\ Range(probe.items) \subseteq FolderNames
        /\ \A i, j \in DOMAIN probe.items :
                i < j => ~StrLess(probe.items[j], probe.items[i])
        /\ probe.outcome = IF probe.names = <<>> THEN "NoItems" ELSE "Listed"

\* Drive returned C, A, B and the listing is A, B, C
C18_ABC ==
    /\ probe.fn = "folders"
    /\ probe.names = << <<"C">>, <<"A">>, <<"B">> >>
    /\ probe.items = << <<"A">>, <<"B">>, <<"C">> >>

\* u's fetch has sent the downloaded file and written the cache
FreshlyDelivered(u) ==
    /\ Fetching(u)
    /\ h[u].pc = "done"
    /\ h[u].delivery = "ok"
    /\ h[u].sent # 0

\* C19: whatever the interleaving of fetches of one key that each download
\* and deliver, every put is one atomic step, and when the fetches have
\* ended the table holds one row for the key, with the handle of the put
\* made last, which is the handle one of them obtained.
C19_LastWriteWins ==
    /\ \A key \in DOMAIN lastPut :
            /\ Cardinality({r \in assignment_cache :
                    SameKey(r, key[2], key[3], key[4], key[5])}) = 1
            /\ CacheGet(key) = lastPut[key]
    /\ \A u \in Users :
            (\A v \in Users :
                /\ FreshlyDelivered(v)
                /\ CacheKey(KindOf(h[v].op), h[v]) = CacheKey(KindOf(h[u].op), h[u])) =>
                    /\ CachedNow(u) \in {h[v].sent : v \in Users}
                    /\ CachedNow(u) = lastPut[CacheKey(KindOf(h[u].op), h[u])]

\* two fetches of one key that both missed the cache, so ran side by side,
\* have delivered with different handles
C19_BothDelivered ==
    \E u, v \in Users :
        /\ u # v
        /\ FreshlyDelivered(u) /\ FreshlyDelivered(v)
        /\ CacheKey(KindOf(h[u].op), h[u]) = CacheKey(KindOf(h[v].op), h[v])
        /\ h[u].cached_file_id = 0 /\ h[v].cached_file_id = 0
        /\ h[u].sent # h[v].sent
        /\ CachedNow(u) \in {h[u].sent, h[v].sent}

\* C20: within one fetch request there is at most one send by the cached
\* handle, one resolution of at most 4 lookups, one file query, one download
\* and one send of the downloaded file; a step that has failed has been
\* made once and is not made again.
C20_NoRetry ==
    \A u \in Users :
        Fetching(u) =>
            /\ h[u].redeliveries <= 1
            /\ h[u].resolutions <= 1
            /\ h[u].lookups <= 4
            /\ h[u].queries <= 1
            /\ h[u].downloads <= 1
            /\ h[u].deliveries <= 1
            /\ h[u].redelivery = "send_failed" => h[u].pc # "cache"
            /\ h[u].lookup_error # 0 => (h[u].resolutions = 1 /\ h[u].pc = "done")
            /\ h[u].query = "HttpError" => (h[u].queries = 1 /\ h[u].pc = "done")
            /\ h[u].download = "failed" => (h[u].downloads = 1 /\ h[u].pc = "done")
            /\ h[u].delivery \in {"TimedOut", "TelegramError"} =>
                    (h[u].deliveries = 1 /\ h[u].pc = "done")

\* a request whose cached send and whose fresh send have both failed: each
\* step was made once
C20_FailedTwice ==
    \E u \in Users :
        /\ Fetching(u)
        /\ h[u].pc = "done"
        /\ h[u].redelivery = "send_failed"
        /\ h[u].delivery = "TimedOut"
        /\ h[u].redeliveries = 1 /\ h[u].resolutions = 1 /\ h[u].lookups = 4
        /\ h[u].queries = 1 /\ h[u].downloads = 1 /\ h[u].deliveries = 1

(***************************************************************************)
(* Item numbers.                                                           *)
(***************************************************************************)

\* the number under which a row of either table is stored
StoredNumbers == {r.number : r \in assignment_cache \cup note_cache}

\* C21: every number a cache row is stored under is at least 1, and a fetch
\* whose number argument is 0 or negative looks nothing up in Drive, queries
\* no file and puts no cache row.
C21_NumbersPositive ==
    /\ \A n \in StoredNumbers : n >= 1
    /\ \A u \in Users :
            (Parsed(u) /\ h[u].pc # "idle" /\ IsInt(h[u].args[3])
                    /\ ParseInt(h[u].args[3]) < 1) =>
                /\ h[u].lookups = 0
                /\ h[u].queries = 0
                /\ h[u].puts = 0

(***************************************************************************)
(* The resolver's result.                                                  *)
(***************************************************************************)

\* DRIVE[i] is a folder named name directly under parent_id
ChildAt(i, parent_id, name) ==
    /\ DRIVE[i].folder
    /\ DRIVE[i].parent = parent_id
    /\ DRIVE[i].name = name

\* C22: for a segment list whose every segment has a matching child folder,
\* resolve_path_to_id returns the root when the list is empty and otherwise
\* a folder that is, under the name of the last segment, the first child
\* in the API's order of the folder the segments before it lead to; the two
\* cache tables and every session are as they were.
C22_ResolverResult ==
    (probe.fn = "resolve" /\ FirstMiss(probe.path_parts) = 0) =>
        LET n == Len(probe.path_parts)
        IN  /\ n = 0 => probe.id = GOOGLE_DRIVE_ROOT_FOLDER_ID
            /\ n > 0 =>
                    \E i \in DOMAIN DRIVE :
                        /\ DRIVE[i].id = probe.id
                        /\ ChildAt(i, Reached(probe.path_parts, n - 1), probe.path_parts[n])
                        /\ \A j \in 1..(i - 1) :
                                ~ChildAt(j, Reached(probe.path_parts, n - 1), probe.path_parts[n])
            /\ assignment_cache = {}
            /\ note_cache = {}
            /\ user_data = [u \in Users |-> <<>>]
            /\ conv = [u \in Users |-> "END"]

\* four segments resolved, the last of them the name of two child folders:
\* the result is the one the API lists first
C22_FirstOfTwo ==
    /\ probe.fn = "resolve"
    /\ probe.path_parts = << <<"2nd", "_", "Year">>, <<"CSE">>, <<"DBMS">>, <<"Assignments">> >>
    /\ Cardinality({i \in DOMAIN DRIVE : ChildAt(i, "db", <<"Assignments">>)}) = 2
    /\ probe.id = "as"

(***************************************************************************)
(* Where the cache rows come from.                                         *)
(***************************************************************************)

\* the step is u's fresh delivery: the download had succeeded, the send of
\* the downloaded content returns a handle, and the one table of the kind
\* gets the row of the request's key with that handle
DeliveryPut(u) ==
    LET rec == h[u]
        kind == KindOf(rec.op)
    IN  /\ Fetching(u)
        /\ rec.pc = "deliver"
        /\ rec.download = "ok"
        /\ rec.downloads >= 1
        /\ h'[u].pc = "done"
        /\ h'[u].delivery = "ok"
        /\ h'[u].deliveries = rec.deliveries + 1
        /\ h'[u].sent \in Handles
        /\ IF kind = "Assignment"
           THEN /\ assignment_cache' = CacheUpsert(assignment_cache, rec.year,
                        rec.group_name, rec.subject, rec.number, h'[u].sent)
                /\ note_cache' = note_cache
           ELSE /\ note_cache' = CacheUpsert(note_cache, rec.year,
                        rec.group_name, rec.subject, rec.number, h'[u].sent)
                /\ assignment_cache' = assignment_cache

\* C23: a step that changes a cache table is the fresh delivery of some
\* request, made after its download, and writes the row of that request's
\* normalized key and kind with the handle the delivery returned; no other
\* step writes the cache, and a request that has not delivered has put
\* nothing.
C23_Provenance ==
    [][/\ (<<assignment_cache, note_cache>>' # <<assignment_cache, note_cache>>) =>
                \E u \in Users : DeliveryPut(u)
       /\ \A u \in Users : h'[u].puts > 0 =>
                /\ h'[u].delivery = "ok"
                /\ h'[u].puts = 1
                /\ h'[u].sent \in Handles]_vars

\* a request has downloaded, delivered and put its row, which replaced the
\* stale row it began with
C23_PutAfterDelivery ==
    \E u \in Users :
        /\ FreshlyDelivered(u)
        /\ h[u].download = "ok"
        /\ h[u].puts = 1
        /\ h[u].cached_file_id # 0
        /\ CachedNow(u) = h[u].sent
        /\ ~CacheAsBefore(u)

(***************************************************************************)
(* One cache for all users.                                                *)
(***************************************************************************)

\* u's request has read the cache and has put nothing since
HasRead(u) ==
    /\ Parsed(u)
    /\ h[u].pc \in {"drive", "deliver", "done"}
    /\ h[u].outcome \notin {"NotConfigured", "Usage", "BadNumber"}
    /\ h[u].puts = 0

\* C24: a request that has read the cache has found the handle last put
\* under its year, group, subject, kind and number, whichever user's
\* request put it, and a step that changes a user's session (/start, the
\* year, the name, /cancel) leaves both cache tables as they are.
C24_SharedCache ==
    /\ [](\A u \in Users : HasRead(u) =>
            h[u].cached_file_id =
                IF CacheKey(KindOf(h[u].op), h[u]) \in DOMAIN lastPut
                THEN lastPut[CacheKey(KindOf(h[u].op), h[u])] ELSE 0)
    /\ [][session' # session =>
            <<assignment_cache, note_cache>>' = <<assignment_cache, note_cache>>]_vars

\* the only row of the cache was put by the other user's request, and u's
\* request of the same key was served by its handle
C24_HitOnOthersRow ==
    \E u \in Users :
        /\ HasRead(u)
        /\ lastWriter \in Users \ {u}
        /\ Cardinality(assignment_cache \cup note_cache) = 1
        /\ h[u].cached_file_id # 0
        /\ h[u].cached_file_id = CachedNow(u)
        /\ h[u].outcome = "Delivered"
        /\ h[u].downloads = 0

(***************************************************************************)
(* The years.                                                              *)
(***************************************************************************)

YearValues == { <<y, "_", "Year">> : y \in {"1st", "2nd", "3rd", "4th"} }

\* C25: a session's year, when set, is 1st_Year, 2nd_Year, 3rd_Year or
\* 4th_Year and is the stored display text with its space replaced by an
\* underscore; so is the first segment of every path looked up in Drive,
\* the year of every cache row and the year of every key put.
C25_YearDomain ==
    /\ \A u \in Users :
            /\ check_user_setup(u) =>
                    /\ user_data[u]["year"] \in YearValues
                    /\ "year_display" \in DOMAIN user_data[u]
                    /\ user_data[u]["year"] = StrReplace(user_data[u]["year_display"], " ", "_")
            /\ h[u].lookups > 0 => RequestPath(u)[1] \in YearValues
    /\ \A row \in assignment_cache \cup note_cache : row.year \in YearValues
    /\ \A key \in DOMAIN lastPut : key[2] \in YearValues

\* one user's year is 1st_Year and the other's 2nd_Year; a request of the
\* second has looked its path up from the year's folder and put a row
C25_TwoYears ==
    \E u, v \in Users :
        /\ check_user_setup(u)
        /\ user_data[u]["year"] = <<"1st", "_", "Year">>
        /\ check_user_setup(v)
        /\ user_data[v]["year"] = <<"2nd", "_", "Year">>
        /\ FreshlyDelivered(v)
        /\ h[v].lookups = 4
        /\ RequestPath(v)[1] = <<"2nd", "_", "Year">>
        /\ \E row \in assignment_cache \cup note_cache : row.year = RequestPath(v)[1]

(***************************************************************************)
(* src/bot.py: the conversation history.                                   *)
(***************************************************************************)

\* the number of exchanges a history is followed for
MaxExchanges == 2

INITIAL_SYSTEM_MESSAGE == [role |-> "system", content |-> <<"You", " ", "are", " ", "CalmiQ">>]

FALLBACK_RESPONSE == <<"Hmm">>

\* what get_gemma_response, format_as_poetry and translate_text leave as the
\* reply: the model's text or, when ollama raises, the fallback
Responses == { <<"reply">>, FALLBACK_RESPONSE }

\* the text messages a user sends
ChatTexts == { <<"hi">>, <<"Exit">> }

\* the text of a /setlanguage command
LanguageTexts == { <<"/setlanguage", " ", "HI">> }

lower(tok) ==
    CASE tok \in {"exit", "Exit", "EXIT"} -> "exit"
      [] tok \in {"hi", "Hi", "HI"} -> "hi"
      [] OTHER -> tok

\* s.lower()
StrLower(s) == [i \in DOMAIN s |-> lower(s[i])]

\* s.strip()
RECURSIVE StrStrip(_)
StrStrip(s) ==
    IF s = <<>> THEN s
    ELSE IF Head(s) = " " THEN StrStrip(Tail(s))
    ELSE IF s[Len(s)] = " " THEN StrStrip(SubSeq(s, 1, Len(s) - 1))
    ELSE s

\* /start: a user not yet in user_data gets the history of the system
\* message alone; a known user is greeted and user_data is left as it is.
\* (context.user_data, cleared here, is PTB's own dict and holds nothing.)
bot_start(u) ==
    /\ bot_user_data' =
            IF u \in DOMAIN bot_user_data THEN bot_user_data
            ELSE (u :> (("messages" :> <<INITIAL_SYSTEM_MESSAGE>>)
                            @@ ("language" :> <<"en">>))) @@ bot_user_data
    /\ probe' = [Unprobed EXCEPT !.fn = "start", !.user = u]
    /\ UNCHANGED <<session, caches, h, concurrent_updates>>

\* a reset that leaves an empty history in place of no history
bot_reset_emptying(u) ==
    /\ bot_user_data' =
            IF u \in DOMAIN bot_user_data
            THEN [bot_user_data EXCEPT ![u] = ("messages" :> <<>>)]
            ELSE bot_user_data
    /\ probe' = [Unprobed EXCEPT !.fn = "reset", !.user = u]
    /\ UNCHANGED <<session, caches, h, concurrent_updates>>

\* /reset: user_data[user_id].clear()
bot_reset(u) ==
    /\ bot_user_data' =
            IF u \in DOMAIN bot_user_data
            THEN [bot_user_data EXCEPT ![u] = <<>>]
            ELSE bot_user_data
    /\ probe' = [Unprobed EXCEPT !.fn = "reset", !.user = u]
    /\ UNCHANGED <<session, caches, h, concurrent_updates>>

\* /setlanguage: the whole text of the message, stripped and lower-cased,
\* becomes the language; KeyError for a user not in user_data
set_language(u, text) ==
    /\ bot_user_data' =
            IF u \in DOMAIN bot_user_data
            THEN [bot_user_data EXCEPT ![u] = ("language" :> StrLower(StrStrip(text))) @@ @]
            ELSE bot_user_data
    /\ probe' = [Unprobed EXCEPT !.fn = "set_language", !.user = u, !.text = text,
                    !.outcome = IF u \in DOMAIN bot_user_data THEN "none" ELSE "KeyError"]
    /\ UNCHANGED <<session, caches, h, concurrent_updates>>

\* handle_message on the user's dict d: the dict it leaves.  The two appends
\* have no await and no uncaught exception between them.
handle_message(d, user_input, bot_response) ==
    IF StrLower(user_input) = <<"exit">> THEN d
    ELSE LET messages == IF "messages" \in DOMAIN d THEN d["messages"]
                         ELSE <<INITIAL_SYSTEM_MESSAGE>>
         IN  ("messages" :> (messages \o << [role |-> "user", content |-> user_input],
                                            [role |-> "assistant", content |-> bot_response] >>))
                @@ d

\* A text message that is not a command.  ask_name and handle_message are
\* both registered for it in one group, so ask_name alone is called: it
\* stores the first text as the name and passes every later one to
\* handle_message; KeyError for a user not in user_data.
ask_name(u, text) ==
    \E bot_response \in Responses :
        LET known == u \in DOMAIN bot_user_data
            named == known /\ "name" \in DOMAIN bot_user_data[u]
            d == IF ~known THEN <<>>
                 ELSE IF ~named THEN ("name" :> StrStrip(text)) @@ bot_user_data[u]
                 ELSE handle_message(bot_user_data[u], text, bot_response)
        IN  /\ "messages" \in DOMAIN d => Len(d["messages"]) <= 1 + 2 * MaxExchanges
            /\ bot_user_data' =
                    IF known THEN [bot_user_data EXCEPT ![u] = d] ELSE bot_user_data
            /\ probe' = [Unprobed EXCEPT
                            !.fn = IF named THEN "handle_message" ELSE "ask_name",
                            !.user = u, !.text = text,
                            !.outcome = IF known THEN "none" ELSE "KeyError"]
            /\ UNCHANGED <<session, caches, h, concurrent_updates>>

NextChat ==
    \E u \in Users :
        \/ bot_start(u)
        \/ bot_reset(u)
        \/ \E text \in LanguageTexts : set_language(u, text)
        \/ \E text \in ChatTexts : ask_name(u, text)

\* user_data.json absent at launch: load_user_data() returns {}
SpecChat == Init /\ [][NextChat]_vars

\* the history of u, <<>> when user_data[u] has no 'messages' list
History(u) ==
    IF u \in DOMAIN bot_user_data /\ "messages" \in DOMAIN bot_user_data[u]
    THEN bot_user_data[u]["messages"] ELSE <<>>

HasHistory(u) == u \in DOMAIN bot_user_data /\ "messages" \in DOMAIN bot_user_data[u]

\* the system message, then user and assistant entries in turn
Shaped(messages) ==
    /\ Len(messages) >= 1
    /\ messages[1] = INITIAL_SYSTEM_MESSAGE
    /\ \A i \in 2..Len(messages) :
            messages[i].role = IF i % 2 = 0 THEN "user" ELSE "assistant"

\* C26: in bot.py, whenever user_data[user] has a 'messages' list, its
\* first element is the system message and the rest are user and assistant
\* entries in turn; a message handled by handle_message appends to the
\* history (begun with the system message if there was none) one user
\* entry with its text and then one assistant entry, the text 'exit' in
\* any case leaves user_data as it was, and no other update appends.
C26_HistoryShape ==
    /\ [](\A u \in Users : HasHistory(u) => Shaped(History(u)))
    /\ [][\A u \in Users :
            IF probe'.fn = "handle_message" /\ probe'.user = u
            THEN IF StrLower(probe'.text) = <<"exit">>
                 THEN bot_user_data' = bot_user_data
                 ELSE \E bot_response \in Responses :
                        History(u)' =
                            (IF HasHistory(u) THEN History(u) ELSE <<INITIAL_SYSTEM_MESSAGE>>)
                                \o << [role |-> "user", content |-> probe'.text],
                                      [role |-> "assistant", content |-> bot_response] >>
            ELSE History(u)' \in {History(u), <<>>, <<INITIAL_SYSTEM_MESSAGE>>}]_vars

\* after a /reset (the language is gone), a name and one exchange the user
\* has sent 'Exit': the history is the system message and the one exchange
C26_ExitAfterReset ==
    \E u \in Users :
        /\ probe.fn = "handle_message"
        /\ probe.user = u
        /\ probe.text = <<"Exit">>
        /\ "language" \notin DOMAIN bot_user_data[u]
        /\ Len(History(u)) = 3
        /\ History(u)[2].role = "user"
        /\ History(u)[3].role = "assistant"

====
